---------------------------- MODULE Spec2Model ----------------------------
(***************************************************************************)
(* A model of src/app.py, the Streamlit sentiment dashboard.               *)
(*                                                                         *)
(* The script is re-executed from its first line on every user             *)
(* interaction.  One action of the model is one interaction together with  *)
(* the complete script run it causes.  The state is what survives between  *)
(* runs (the uploaded file, the widget store) and what the last run left   *)
(* behind (its DataFrame, the calls it made to the classifier, the page it *)
(* rendered, the file the browser saved).                                  *)
(***************************************************************************)
EXTENDS Integers, Sequences, FiniteSets, Bags, TLC

(***************************************************************************)
(* Bounds of the model.                                                    *)
(***************************************************************************)
\* Largest number of records of an uploaded table that is longer than the
\* rolling window, and of one that is far shorter.
MaxRows == 22
MaxShort == 3
\* Largest rotation of the cell catalogues used to fill an uploaded table.
MaxOffset == 1

(***************************************************************************)
(* Program constants.                                                      *)
(***************************************************************************)
\* df["Sentiment_Score"].rolling(20)
Window == 20
\* round(df["Sentiment_Score"].mean(), 2) and f"{accuracy*100:.2f}%"
Digits == 2

(***************************************************************************)
(* Optional values: <<>> is None, <<x>> is a present x.                    *)
(***************************************************************************)
None == <<>>
Some(x) == <<x>>

Range(s) == {s[i] : i \in DOMAIN s}

(***************************************************************************)
(* Cell values of a DataFrame: Python str, int, float and the float NaN.   *)
(* A float is the exact rational n/d in lowest terms with d > 0; binary    *)
(* rounding of floating point is not modelled.                             *)
(***************************************************************************)
RECURSIVE Gcd(_, _)
Gcd(a, b) == IF b = 0 THEN a ELSE Gcd(b, a % b)

Abs(x) == IF x < 0 THEN -x ELSE x

StrV(s) == [t |-> "str", s |-> s, n |-> 0, d |-> 1]
IntV(n) == [t |-> "int", s |-> "", n |-> n, d |-> 1]
NaN == [t |-> "nan", s |-> "", n |-> 0, d |-> 1]
FloatV(n, d) ==
    LET g == Gcd(Abs(n), d)
    IN  [t |-> "float", s |-> "", n |-> n \div g, d |-> d \div g]

IsNum(v) == v.t \in {"int", "float"}

\* Python's unary minus on a float (NaN stays NaN).
Neg(v) == IF v.t = "float" THEN FloatV(-v.n, v.d) ELSE v

\* Python's == on two cells, as pandas applies it element by element:
\* NaN equals nothing, numbers compare by value, strings by content.
PyEq(a, b) ==
    IF a.t = "nan" \/ b.t = "nan" THEN FALSE
    ELSE IF IsNum(a) /\ IsNum(b) THEN a.n * b.d = b.n * a.d
    ELSE a.t = "str" /\ b.t = "str" /\ a.s = b.s

\* 10^k modulo d, by repeated squaring.
RECURSIVE Pow10Mod(_, _)
Pow10Mod(k, d) ==
    IF k = 0 THEN 1 % d
    ELSE LET h == Pow10Mod(k \div 2, d)
             sq == (h * h) % d
         IN  IF k % 2 = 0 THEN sq ELSE (sq * 10) % d

\* What is left of r/d (r < d) after its first k decimal digits, times d.
Remainder(r, d, k) == (r * Pow10Mod(k, d)) % d

\* The decimal digits lo..hi of r/d after the point, as a string.
RECURSIVE FracDigits(_, _, _, _)
FracDigits(r, d, lo, hi) ==
    IF lo > hi THEN ""
    ELSE IF lo = hi THEN ToString((Remainder(r, d, lo - 1) * 10) \div d)
    ELSE LET mid == (lo + hi) \div 2
         IN  FracDigits(r, d, lo, mid) \o FracDigits(r, d, mid + 1, hi)

\* The number of decimal digits of r/d (r < d): the first place at which
\* nothing is left, and 17 for a fraction that does not end by then.
FracLength(r, d) ==
    IF \E k \in 1..17 : Remainder(r, d, k) = 0
    THEN CHOOSE k \in 1..17 :
             \A j \in 1..17 : Remainder(r, d, j) = 0 <=> j >= k
    ELSE 17

\* repr() of a float: sign, integer part, point, fraction (at least one
\* digit).  A fraction that does not terminate is cut after 17 digits.
FloatRepr(v) ==
    (IF v.n < 0 THEN "-" ELSE "") \o ToString(Abs(v.n) \div v.d) \o "."
        \o FracDigits(Abs(v.n) % v.d, v.d, 1, FracLength(Abs(v.n) % v.d, v.d))

\* str(x) of line 68.
str(v) ==
    CASE v.t = "str" -> v.s
      [] v.t = "int" -> ToString(v.n)
      [] v.t = "float" -> FloatRepr(v)
      [] v.t = "nan" -> "nan"

RECURSIVE Pow10(_)
Pow10(k) == IF k = 0 THEN 1 ELSE 10 * Pow10(k - 1)

\* round(x, k): to the nearest multiple of 10^-k, ties to even.
round(v, k) ==
    IF v.t = "nan" THEN NaN
    ELSE LET p == Pow10(k)
             f == (v.n * p) \div v.d
             r == (v.n * p) % v.d
             q == IF 2 * r > v.d THEN f + 1
                  ELSE IF 2 * r < v.d THEN f
                  ELSE IF f % 2 = 0 THEN f ELSE f + 1
         IN  FloatV(q, p)

(***************************************************************************)
(* Rational arithmetic on float cells.                                     *)
(***************************************************************************)
Add(a, b) == FloatV(a.n * b.d + b.n * a.d, a.d * b.d)
DivInt(a, k) == FloatV(a.n, a.d * k)
MulInt(a, k) == IF a.t = "nan" THEN NaN ELSE FloatV(a.n * k, a.d)
Zero == FloatV(0, 1)

(***************************************************************************)
(* The classifier: pipeline("sentiment-analysis", ...) loaded once by      *)
(* load_model().  It is opaque to the script; here it is a fixed function  *)
(* from text to a label and a confidence, model(text)[0] of line 68.       *)
(***************************************************************************)
Result(label, hundredths) == [label |-> label, score |-> FloatV(hundredths, 100)]

model(text) ==
    CASE text = "I love this" -> Result("POSITIVE", 95)
      [] text = "I hate this" -> Result("NEGATIVE", 90)
      [] text = "nan" -> Result("NEGATIVE", 60)
      [] text = "so bad" -> Result("NEGATIVE", 55)
      [] text = "great day" -> Result("POSITIVE", 100)
      [] text = "ok" -> Result("POSITIVE", 50)
      [] text = "not good" -> Result("NEGATIVE", 99)
      [] OTHER -> Result("POSITIVE", 73)

(***************************************************************************)
(* DataFrames.  columns is the ordered list of column names, n the number  *)
(* of rows and col[c] the cells of column c in row order (row i of the     *)
(* model is the zero-indexed row i-1 of the code).                         *)
(***************************************************************************)
HasColumn(df, c) == c \in Range(df.columns)

\* df[c] = series: an existing column is overwritten in place, a new one is
\* appended after the last column.
SetColumn(df, c, series) ==
    [columns |-> IF HasColumn(df, c) THEN df.columns ELSE Append(df.columns, c),
     n |-> df.n,
     col |-> [x \in (DOMAIN df.col) \cup {c} |->
                 IF x = c THEN series ELSE df.col[x]]]

\* The indices at which the boolean series mask is true, in increasing
\* order: the k-th of them is the one with k true entries up to it.
Kept(mask) ==
    LET kept == {i \in DOMAIN mask : mask[i]}
    IN  [k \in 1..Cardinality(kept) |->
            CHOOSE i \in kept : Cardinality({j \in kept : j <= i}) = k]

\* df[mask]: the rows where the boolean series mask is true, in order.
SelectRows(df, mask) ==
    LET rows == Kept(mask)
    IN  [columns |-> df.columns,
         n |-> Len(rows),
         col |-> [c \in DOMAIN df.col |->
                     [k \in 1..Len(rows) |-> df.col[c][rows[k]]]]]

\* df.head(): the first five rows.
head(df) ==
    LET shown == IF df.n < 5 THEN df.n ELSE 5
    IN  [columns |-> df.columns,
         n |-> shown,
         col |-> [c \in DOMAIN df.col |-> SubSeq(df.col[c], 1, shown)]]

\* The sum of the non-NaN values of s[lo..hi], added pairwise.
RECURSIVE Sum(_, _, _)
Sum(s, lo, hi) ==
    IF lo > hi THEN Zero
    ELSE IF lo = hi THEN (IF s[lo].t = "nan" THEN Zero ELSE s[lo])
    ELSE LET mid == (lo + hi) \div 2
         IN  Add(Sum(s, lo, mid), Sum(s, mid + 1, hi))

\* Series.mean(): the mean of the non-NaN values, NaN when there are none.
mean(s) ==
    LET nobs == Cardinality({i \in DOMAIN s : s[i].t # "nan"})
    IN  IF nobs = 0 THEN NaN ELSE DivInt(Sum(s, 1, Len(s)), nobs)

\* The mean of a boolean series (True is 1, False is 0).
mean_bool(b) ==
    IF Len(b) = 0 THEN NaN
    ELSE FloatV(Cardinality({i \in DOMAIN b : b[i]}), Len(b))

\* DataFrame.to_csv(index=False): the header and one line of fields per row.
\* NaN is written as the empty field, a number as its repr.
CsvField(v) == IF v.t = "nan" THEN "" ELSE str(v)

to_csv(df) ==
    [header |-> df.columns,
     rows |-> [i \in 1..df.n |->
                 [j \in 1..Len(df.columns) |-> CsvField(df.col[df.columns[j]][i])]]]

(***************************************************************************)
(* The analysis block, lines 65-148, one operator per statement.           *)
(***************************************************************************)
\* Line 68: df["tweet"].apply(lambda x: model(str(x))[0]).  apply walks the
\* rows in order: the i-th call of the classifier is made for row i.  calls
\* is the list of texts handed to the classifier, in the order of the
\* calls, and out the list of what it returned, call by call.
apply(tweet, n) ==
    LET texts == [i \in 1..n |-> str(tweet[i])]
    IN  [calls |-> texts, out |-> [i \in 1..n |-> model(texts[i])]]

\* A variant of results that fills empty cells with "" before the pass, as
\* df["tweet"].fillna("") would.
results_FillEmpty(df) ==
    apply([i \in 1..df.n |->
              IF df.col["tweet"][i] = NaN THEN StrV("") ELSE df.col["tweet"][i]],
          df.n)

results(df) == apply(df.col["tweet"], df.n)

\* Lines 69-70.
Predicted_Sentiment(res) == [i \in DOMAIN res |-> StrV(res[i].label)]
Confidence(res) == [i \in DOMAIN res |-> res[i].score]

\* A variant of Sentiment_Score that never negates the confidence.
Sentiment_Score_Unsigned(df) == df.col["Confidence"]

\* Lines 73-77: np.where(Predicted_Sentiment == "POSITIVE", Confidence, -Confidence).
Sentiment_Score(df) ==
    [i \in 1..df.n |->
        IF PyEq(df.col["Predicted_Sentiment"][i], StrV("POSITIVE"))
        THEN df.col["Confidence"][i]
        ELSE Neg(df.col["Confidence"][i])]

\* Line 80: value_counts(), a count for every value that occurs (NaN
\* dropped), and nothing for a value that does not occur.
value_counts(s) ==
    [v \in {s[i] : i \in DOMAIN s} \ {NaN} |->
        Cardinality({i \in DOMAIN s : s[i] = v})]

\* counts.get(key, default) of lines 83, 84, 136-138.
get(counts, key, default) ==
    IF StrV(key) \in DOMAIN counts THEN counts[StrV(key)] ELSE default

\* A variant of metrics whose total is df["tweet"].count(), the number of
\* non-empty tweets, instead of len(df).
metrics_CountNonEmpty(df, counts) ==
    [Positive |-> get(counts, "POSITIVE", 0),
     Negative |-> get(counts, "NEGATIVE", 0),
     Total |-> Cardinality({i \in 1..df.n : df.col["tweet"][i] # NaN}),
     Avg |-> round(mean(df.col["Sentiment_Score"]), Digits)]

\* Lines 83-86: the four headline metrics.
metrics(df, counts) ==
    [Positive |-> get(counts, "POSITIVE", 0),
     Negative |-> get(counts, "NEGATIVE", 0),
     Total |-> df.n,
     Avg |-> round(mean(df.col["Sentiment_Score"]), Digits)]

\* A variant of accuracy that divides by the number of rows that have a
\* ground-truth label instead of by the number of rows.
accuracy_OverLabelled(df) ==
    LET labelled == {i \in 1..df.n : df.col["sentiment"][i] # NaN}
        equal == {i \in labelled :
                    PyEq(df.col["sentiment"][i], df.col["Predicted_Sentiment"][i])}
    IN  IF labelled = {} THEN NaN
        ELSE FloatV(Cardinality(equal), Cardinality(labelled))

\* Line 90: (df["sentiment"] == df["Predicted_Sentiment"]).mean().
accuracy(df) ==
    mean_bool([i \in 1..df.n |->
        PyEq(df.col["sentiment"][i], df.col["Predicted_Sentiment"][i])])

\* Lines 89-91: the accuracy and the percentage of the success message,
\* shown only when the table has a sentiment column.
success(df) ==
    IF HasColumn(df, "sentiment")
    THEN Some([accuracy |-> accuracy(df),
               percent |-> round(MulInt(accuracy(df), 100), Digits)])
    ELSE None

\* Line 99.
filtered_df(df, filter_option) ==
    IF filter_option = "All" THEN df
    ELSE SelectRows(df, [i \in 1..df.n |->
             PyEq(df.col["Predicted_Sentiment"][i], StrV(filter_option))])

\* Line 128: range(len(df)).
Trend_Index(df) == [i \in 1..df.n |-> IntV(i - 1)]

\* Line 129: rolling(window).mean() with min_periods = window.  The window
\* of row i is the window rows that end at i, cut at the first row; its
\* value is the mean of the non-NaN rows in it when they number at least
\* min_periods, and NaN otherwise.
rolling_mean(s, window) ==
    [i \in DOMAIN s |->
        LET first == IF i > window THEN i - window + 1 ELSE 1
            nobs == Cardinality({j \in first..i : s[j].t # "nan"})
            min_periods == window
        IN  IF nobs >= min_periods THEN DivInt(Sum(s, first, i), nobs) ELSE NaN]

\* A variant of Rolling_Sentiment whose window is one row short.
Rolling_Sentiment_ShortWindow(df) ==
    rolling_mean(df.col["Sentiment_Score"], Window - 1)

Rolling_Sentiment(df) == rolling_mean(df.col["Sentiment_Score"], Window)

\* A variant of insights that compares with >= and so calls a tie Positive.
insights_TieIsPositive(counts) ==
    [Positive |-> get(counts, "POSITIVE", 0),
     Negative |-> get(counts, "NEGATIVE", 0),
     Opinion |-> IF get(counts, "POSITIVE", 0) >= get(counts, "NEGATIVE", 0)
                 THEN "Positive" ELSE "Negative"]

\* Lines 134-139: the two counts and the overall opinion.
insights(counts) ==
    [Positive |-> get(counts, "POSITIVE", 0),
     Negative |-> get(counts, "NEGATIVE", 0),
     Opinion |-> IF get(counts, "POSITIVE", 0) > get(counts, "NEGATIVE", 0)
                 THEN "Positive" ELSE "Negative"]

(***************************************************************************)
(* The page a run renders.  Every element is None until the run reaches    *)
(* the statement that draws it.                                            *)
(***************************************************************************)
EmptyPage ==
    [info |-> FALSE, preview |-> None, button |-> FALSE, exception |-> None,
     metric |-> None, success |-> None, selectbox |-> None, dataframe |-> None,
     bar |-> None, pie |-> None, line_chart |-> None, insights |-> None,
     download_button |-> None]

\* Lines 57-65: the preview card and the trigger button.
PreviewPage(df) ==
    [EmptyPage EXCEPT !.preview = Some([Total |-> df.n, head |-> head(df)]),
                      !.button = TRUE]

(***************************************************************************)
(* State.                                                                  *)
(***************************************************************************)
VARIABLES
    uploaded_file,   \* the uploader's file: None, or Some(the table in it)
    filter_option,   \* the selectbox's value in the session's widget store
    event,           \* the interaction that caused the last run
    df,              \* the DataFrame at the end of the last run, or None
    calls,           \* the texts handed to the classifier in the last run
    page             \* what the last run rendered

vars == <<uploaded_file, filter_option, event, df, calls, page>>

Event(kind, arg) == [kind |-> kind, arg |-> arg]

(***************************************************************************)
(* One run of the script, lines 43-148, as the action that writes what the *)
(* run leaves behind.  Each value the script computes is bound once, in    *)
(* the order of the statements (\E x \in {e} binds x to the value of e).   *)
(***************************************************************************)
\* The end of a run: its DataFrame, its classifier calls, its page and the
\* selectbox value the widget store keeps.  A widget that a run does not
\* draw loses its stored value, so the next selectbox starts at its first
\* option, "All", again.
Rendered(frame, texts, elements, option) ==
    /\ df' = frame
    /\ calls' = texts
    /\ page' = elements
    /\ filter_option' = option

\* Lines 66-148 on a table that has a tweet column.
Analysis(df0, option) ==
    \E res \in {results(df0)} :
    \E df1 \in {SetColumn(df0, "Predicted_Sentiment", Predicted_Sentiment(res.out))} :
    \E df2 \in {SetColumn(df1, "Confidence", Confidence(res.out))} :
    \E df3 \in {SetColumn(df2, "Sentiment_Score", Sentiment_Score(df2))} :
    \E counts \in {value_counts(df3.col["Predicted_Sentiment"])} :
    \E shown \in {filtered_df(df3, option)} :
    \E df4 \in {SetColumn(df3, "Trend_Index", Trend_Index(df3))} :
    \E df5 \in {SetColumn(df4, "Rolling_Sentiment", Rolling_Sentiment(df4))} :
        Rendered(Some(df5), res.calls,
                 [PreviewPage(df0) EXCEPT
                     !.metric = Some(metrics(df3, counts)),
                     !.success = success(df3),
                     !.selectbox = Some(option),
                     !.dataframe = Some(shown),
                     !.bar = Some(counts),
                     !.pie = Some(counts),
                     !.line_chart = Some(df5.col["Rolling_Sentiment"]),
                     !.insights = Some(insights(counts)),
                     !.download_button = Some(to_csv(df5))],
                 option)

\* Line 68 on a table without a tweet column: df["tweet"] raises KeyError,
\* nothing catches it, and the run ends with the exception on the page.
Failure(df0) ==
    Rendered(Some(df0), <<>>,
             [PreviewPage(df0) EXCEPT
                 !.exception = Some([type |-> "KeyError", message |-> "'tweet'"])],
             "All")

Analyze(df0, option) ==
    IF HasColumn(df0, "tweet") THEN Analysis(df0, option) ELSE Failure(df0)

\* Lines 51-53: nothing uploaded, the run stops after the prompt.
Stopped == Rendered(None, <<>>, [EmptyPage EXCEPT !.info = TRUE], "All")

\* Lines 55-65 when the button reads False: the preview and nothing more.
Previewed(df0) == Rendered(Some(df0), <<>>, PreviewPage(df0), "All")

\* A variant of Script whose analysis block is not under the button.
Script_Ungated(uploaded, clicked, option) ==
    IF uploaded = None THEN Stopped ELSE Analyze(uploaded[1], option)

\* uploaded is the uploader's file (None or the table read_csv parses from
\* it), clicked is what st.button returns in this run and option the
\* selectbox's stored value.
Script(uploaded, clicked, option) ==
    IF uploaded = None THEN Stopped
    ELSE IF clicked THEN Analyze(uploaded[1], option)
    ELSE Previewed(uploaded[1])

(***************************************************************************)
(* The tables a user may upload, as read_csv (line 55) parses them: a text *)
(* column holds strings and NaN for an empty field, a numeric column holds *)
(* integers.  A table is a layout (its column names, in order) filled with *)
(* n rows taken in rotation from a catalogue of cells, starting at off.    *)
(* The row counts are the short ones, 0..MaxShort, and those around the    *)
(* rolling window, Window-1..MaxRows.                                      *)
(***************************************************************************)
Texts ==
    << StrV("I love this"), StrV("I hate this"), NaN, StrV("so bad"),
       StrV("great day"), StrV("ok"), StrV("not good") >>
Numbers == << IntV(7), IntV(-3), IntV(12) >>
Truths == << StrV("POSITIVE"), StrV("NEGATIVE"), StrV("negative"), NaN >>
Grades == << StrV("high"), StrV("low") >>

Cycle(cat, n, off) == [i \in 1..n |-> cat[((i - 1 + off) % Len(cat)) + 1]]

Layouts ==
    { [columns |-> <<"tweet">>, numeric |-> FALSE],
      [columns |-> <<"tweet", "sentiment">>, numeric |-> FALSE],
      [columns |-> <<"text", "sentiment">>, numeric |-> FALSE],
      [columns |-> <<"id", "tweet", "Confidence">>, numeric |-> FALSE],
      [columns |-> <<"tweet">>, numeric |-> TRUE] }

ColumnData(c, numeric, n, off) ==
    CASE c = "tweet" -> Cycle(IF numeric THEN Numbers ELSE Texts, n, off)
      [] c = "text" -> Cycle(Texts, n, off)
      [] c = "sentiment" -> Cycle(Truths, n, off)
      [] c = "id" -> [i \in 1..n |-> IntV(i)]
      [] c = "Confidence" -> Cycle(Grades, n, off)

Table(layout, n, off) ==
    [columns |-> layout.columns,
     n |-> n,
     col |-> [c \in Range(layout.columns) |-> ColumnData(c, layout.numeric, n, off)]]

RowCounts == (0..MaxShort) \cup ((Window - 1)..MaxRows)

Tables ==
    {Table(layout, n, off) : layout \in Layouts, n \in RowCounts, off \in 0..MaxOffset}

FilterOptions == {"All", "POSITIVE", "NEGATIVE"}

\* A new session: the script has run once with nothing uploaded.
Init ==
    /\ uploaded_file = None
    /\ event = Event("start", "")
    /\ df = None
    /\ calls = <<>>
    /\ page = [EmptyPage EXCEPT !.info = TRUE]
    /\ filter_option = "All"

\* The user puts a file into the uploader (lines 45-48).
Upload(table) ==
    /\ uploaded_file # Some(table)
    /\ uploaded_file' = Some(table)
    /\ event' = Event("upload", "")
    /\ Script(Some(table), FALSE, filter_option)

\* The user removes the file from the uploader.
RemoveFile ==
    /\ uploaded_file # None
    /\ uploaded_file' = None
    /\ event' = Event("remove", "")
    /\ Script(None, FALSE, filter_option)

\* The user presses "Analyze Sentiment" (line 65): the button reads True in
\* the run this click causes.
ClickAnalyze ==
    /\ page.button
    /\ event' = Event("analyze", "")
    /\ Script(uploaded_file, TRUE, filter_option)
    /\ UNCHANGED uploaded_file

\* The user picks another option in the selectbox (lines 95-98): the store
\* takes the option and the script runs again; the button reads False.
SelectFilter(option) ==
    /\ page.selectbox # None
    /\ page.selectbox # Some(option)
    /\ event' = Event("select", option)
    /\ Script(uploaded_file, FALSE, option)
    /\ UNCHANGED uploaded_file

\* The user presses the download button (lines 142-148): the browser saves
\* the button's data and the script runs again; the button reads False.
ClickDownload ==
    /\ page.download_button # None
    /\ event' = Event("download", "")
    /\ Script(uploaded_file, FALSE, filter_option)
    /\ UNCHANGED uploaded_file

Next ==
    \/ \E table \in Tables : Upload(table)
    \/ RemoveFile
    \/ ClickAnalyze
    \/ \E option \in FilterOptions : SelectFilter(option)
    \/ ClickDownload

Spec == Init /\ [][Next]_vars

(***************************************************************************)
(* Vocabulary of the properties.                                           *)
(***************************************************************************)
\* The table in the uploader.
Input == uploaded_file[1]

\* The last run was caused by a click on the trigger.
Triggered == event.kind = "analyze"

\* The last run was an analysis that ran to its last line.
Analysed == Triggered /\ page.exception = None

\* The DataFrame the last run ended with.
Frame == df[1]

DerivedColumns ==
    {"Predicted_Sentiment", "Confidence", "Sentiment_Score", "Trend_Index",
     "Rolling_Sentiment"}

\* The number of rows of the analysed table that carry the label.
Labelled(label) ==
    Cardinality({i \in 1..Frame.n : Frame.col["Predicted_Sentiment"][i].s = label})

\* Nothing of an analysis is on the page.
NoResults ==
    /\ page.metric = None
    /\ page.success = None
    /\ page.selectbox = None
    /\ page.dataframe = None
    /\ page.bar = None
    /\ page.pie = None
    /\ page.line_chart = None
    /\ page.insights = None
    /\ page.download_button = None

(***************************************************************************)
(* C1.  When the uploaded table has no tweet column, a press of the        *)
(* trigger makes no classifier call, produces no metrics, charts or        *)
(* download, and ends in a reported MissingColumnError.                    *)
(* The code never checks the columns: df["tweet"] raises KeyError.         *)
(***************************************************************************)
C1_MissingColumnError ==
    (Triggered /\ ~HasColumn(Input, "tweet")) =>
        /\ calls = <<>>
        /\ NoResults
        /\ page.exception # None
        /\ page.exception[1].type = "MissingColumnError"

(***************************************************************************)
(* C2.  In every analysed table, each row's Sentiment_Score is its         *)
(* Confidence when its Predicted_Sentiment is POSITIVE and the negated     *)
(* Confidence otherwise, so the score is never negative on a POSITIVE row  *)
(* and never positive on any other row.                                    *)
(***************************************************************************)
C2_SignedScore ==
    Analysed =>
        \A i \in 1..Frame.n :
            LET label == Frame.col["Predicted_Sentiment"][i].s
                conf == Frame.col["Confidence"][i]
                score == Frame.col["Sentiment_Score"][i]
            IN  /\ score.t = "float"
                /\ score.d = conf.d
                /\ label = "POSITIVE" => (score.n = conf.n /\ score.n >= 0)
                /\ label # "POSITIVE" => (score.n = 0 - conf.n /\ score.n <= 0)

\* An analysed table with a POSITIVE row and a NEGATIVE row.
C2_Witness ==
    /\ Analysed
    /\ Labelled("POSITIVE") > 0
    /\ Labelled("NEGATIVE") > 0

(***************************************************************************)
(* C3.  In every analysed table, Rolling_Sentiment of the zero-indexed row *)
(* i is NaN when i < 19 and, when i >= 19, the sum of Sentiment_Score over *)
(* the 20 rows i-19..i divided by 20.  (Row k of the model is the          *)
(* zero-indexed row k-1.)                                                  *)
(***************************************************************************)
\* A score in hundredths; every confidence of the model is a whole number
\* of hundredths.
Hundredths(v) == (v.n * 100) \div v.d

\* The sum of the scores of rows lo..hi, in hundredths: the rows with a
\* positive score counted as a bag of that many hundredths each, less the
\* same for the rows with a negative score.
ScoreSum(lo, hi) ==
    LET h == [k \in lo..hi |-> Hundredths(Frame.col["Sentiment_Score"][k])]
        gains == [k \in {j \in lo..hi : h[j] > 0} |-> h[k]]
        losses == [k \in {j \in lo..hi : h[j] < 0} |-> 0 - h[k]]
    IN  BagCardinality(gains) - BagCardinality(losses)

C3_RollingMean ==
    Analysed =>
        \A k \in 1..Frame.n :
            LET r == Frame.col["Rolling_Sentiment"][k]
            IN  IF k - 1 >= 19
                THEN /\ r.t = "float"
                     /\ r.n * 100 * 20 = r.d * ScoreSum(k - 19, k)
                ELSE r = NaN

\* An analysed table longer than the window, whose first and last defined
\* rolling values differ: the window has moved.
C3_Witness ==
    /\ Analysed
    /\ Frame.n > 20
    /\ Frame.col["Rolling_Sentiment"][20] # Frame.col["Rolling_Sentiment"][Frame.n]
    /\ Frame.col["Rolling_Sentiment"][19] = NaN

(***************************************************************************)
(* C4.  After an analysis of a table that has a tweet column, an accuracy  *)
(* is on the page exactly when the table has a sentiment column; it is     *)
(* the number of rows whose sentiment cell is the very string of           *)
(* Predicted_Sentiment divided by the number of rows (NaN for no rows);    *)
(* and with or without it the run raises nothing and renders the metrics,  *)
(* the charts, the insight and the download.                               *)
(***************************************************************************)
Matches ==
    Cardinality({i \in 1..Input.n :
        /\ Input.col["sentiment"][i].t = "str"
        /\ Input.col["sentiment"][i].s = Frame.col["Predicted_Sentiment"][i].s})

C4_Accuracy ==
    (Triggered /\ HasColumn(Input, "tweet")) =>
        /\ (page.success # None) <=> HasColumn(Input, "sentiment")
        /\ page.success # None =>
              LET a == page.success[1].accuracy
              IN  IF Input.n = 0 THEN a = NaN
                  ELSE a.t = "float" /\ a.n * Input.n = a.d * Matches
        /\ page.exception = None
        /\ page.metric # None
        /\ page.bar # None /\ page.pie # None /\ page.line_chart # None
        /\ page.insights # None
        /\ page.download_button # None

\* An analysis of a table with ground truth in which some rows match, some
\* do not, and one ground-truth cell is empty.
C4_Witness ==
    /\ Analysed
    /\ HasColumn(Input, "sentiment")
    /\ page.success # None
    /\ Matches > 0
    /\ Matches < Input.n
    /\ \E i \in 1..Input.n : Input.col["sentiment"][i] = NaN

(***************************************************************************)
(* C5.  After an analysis, the Positive metric is the number of rows       *)
(* labelled POSITIVE and the Negative metric the number labelled NEGATIVE  *)
(* (0 when there is none), the Total metric is the number of records, and  *)
(* Positive + Negative = Total.                                            *)
(***************************************************************************)
C5_CountsSumToTotal ==
    Analysed =>
        LET m == page.metric[1]
        IN  /\ m.Positive = Labelled("POSITIVE")
            /\ m.Negative = Labelled("NEGATIVE")
            /\ m.Total = Input.n
            /\ m.Positive + m.Negative = m.Total

\* An analysis of a table with several rows, none of which is labelled
\* NEGATIVE: the Negative metric shows 0.
C5_Witness ==
    /\ Analysed
    /\ Input.n > 1
    /\ page.metric[1].Negative = 0
    /\ page.metric[1].Positive = Input.n

(***************************************************************************)
(* C6.  The exported file has one row per input record, in order; every    *)
(* column of the uploaded table is in it with its original values; and     *)
(* the five derived columns are in it.                                     *)
(* The code overwrites an uploaded column that bears a derived name.       *)
(***************************************************************************)
Position(header, c) == CHOOSE j \in 1..Len(header) : header[j] = c

C6_ExportKeepsInput ==
    Analysed =>
        LET csv == page.download_button[1]
        IN  /\ Len(csv.rows) = Input.n
            /\ DerivedColumns \subseteq Range(csv.header)
            /\ \A c \in Range(Input.columns) :
                  /\ c \in Range(csv.header)
                  /\ \A i \in 1..Input.n :
                        csv.rows[i][Position(csv.header, c)]
                            = CsvField(Input.col[c][i])

(***************************************************************************)
(* C7.  The insight's overall opinion is "Positive" exactly when more rows *)
(* are labelled POSITIVE than NEGATIVE, and "Negative" otherwise: also on  *)
(* a tie and on a table without rows.                                      *)
(***************************************************************************)
C7_Opinion ==
    Analysed =>
        LET o == page.insights[1].Opinion
        IN  /\ o = "Positive" <=> Labelled("POSITIVE") > Labelled("NEGATIVE")
            /\ o = "Negative" <=> Labelled("POSITIVE") <= Labelled("NEGATIVE")

\* An analysis of a table with rows that ends in a tie.
C7_Witness ==
    /\ Analysed
    /\ Input.n > 0
    /\ Labelled("POSITIVE") = Labelled("NEGATIVE")
    /\ page.insights[1].Opinion = "Negative"

(***************************************************************************)
(* C8.  An analysis of a table of n records calls the classifier n times;  *)
(* the i-th call gets the i-th record's tweet as a string (a string as it  *)
(* is, an empty cell as "nan", an integer as its decimal digits); and the  *)
(* i-th record's Predicted_Sentiment and Confidence are the label and the  *)
(* score the classifier returns for the text of the i-th call.             *)
(***************************************************************************)
Coerced(cell) ==
    IF cell.t = "str" THEN cell.s
    ELSE IF cell.t = "nan" THEN "nan"
    ELSE ToString(cell.n)

C8_OneCallPerRecord ==
    (Triggered /\ HasColumn(Input, "tweet")) =>
        /\ Len(calls) = Input.n
        /\ \A i \in 1..Input.n :
              /\ calls[i] = Coerced(Input.col["tweet"][i])
              /\ Frame.col["Predicted_Sentiment"][i] = StrV(model(calls[i]).label)
              /\ Frame.col["Confidence"][i] = model(calls[i]).score

\* An analysis of a table with an empty tweet cell between two strings.
C8_Witness ==
    /\ Analysed
    /\ Len(calls) >= 3
    /\ \E i \in 2..(Input.n - 1) :
          /\ Input.col["tweet"][i] = NaN
          /\ Input.col["tweet"][i - 1].t = "str"
          /\ Input.col["tweet"][i + 1].t = "str"

(***************************************************************************)
(* C9.  After the user selects a filter option, the table on the page is   *)
(* the analysed records whose Predicted_Sentiment is that option (all of   *)
(* them for "All"), and the analysis results are still on the page.        *)
(* The run a selection causes reads the button as False and renders no     *)
(* analysis at all.                                                        *)
(***************************************************************************)
C9_FilteredView ==
    event.kind = "select" =>
        /\ page.metric # None
        /\ page.insights # None
        /\ page.dataframe # None
        /\ page.dataframe[1].n =
              (IF event.arg = "All" THEN Input.n
               ELSE Cardinality({i \in 1..Input.n :
                        model(Coerced(Input.col["tweet"][i])).label = event.arg}))
        /\ \A i \in 1..page.dataframe[1].n :
              event.arg # "All" =>
                  page.dataframe[1].col["Predicted_Sentiment"][i].s = event.arg

(***************************************************************************)
(* C10.  With no file uploaded a run renders the upload prompt and nothing *)
(* else; with a file and no press of the trigger it renders the preview    *)
(* and nothing of an analysis, and leaves the table as read; so a          *)
(* classifier call, a derived column or a download exists only after a     *)
(* run with a file in which the trigger was pressed.                       *)
(***************************************************************************)
C10_Gated ==
    /\ uploaded_file = None =>
          /\ page = [EmptyPage EXCEPT !.info = TRUE]
          /\ df = None
          /\ calls = <<>>
    /\ (uploaded_file # None /\ ~Triggered) =>
          /\ ~page.info
          /\ page.preview # None
          /\ page.exception = None
          /\ NoResults
          /\ df = uploaded_file
          /\ calls = <<>>
    /\ (calls # <<>> \/ page.download_button # None
            \/ (df # None /\ df # uploaded_file)) =>
          (uploaded_file # None /\ Triggered)

\* A run caused by something other than the trigger, with a file uploaded
\* whose analysis would call the classifier.
C10_Witness ==
    /\ uploaded_file # None
    /\ event.kind = "download"
    /\ HasColumn(Input, "tweet")
    /\ Input.n > 0
    /\ page.preview # None

=============================================================================
